---- MODULE Spec2Model ----
(***************************************************************************)
(* Scheduled message delivery engine of Discord-Scheduled-Messenger.       *)
(*                                                                         *)
(* DiscordMessenger (src/DiscordMessenger.py) keeps an APScheduler         *)
(* registry of interval jobs in step with a DynamoDB table reached through *)
(* MessageDB (src/aws_hook.py).  The table outlives the process: its       *)
(* contents at process start are an input of the program.                  *)
(***************************************************************************)
EXTENDS Integers, Sequences, FiniteSets, TLC

(***************************************************************************)
(* Bounds of the model.                                                    *)
(***************************************************************************)
\* records in the table a reconciliation scans (SpecReconcile)
MaxScan == 3
\* chat commands handled over a behaviour
MaxCmds == 3
\* process restarts over a behaviour
MaxRestarts == 1

(***************************************************************************)
(* Inputs.                                                                 *)
(***************************************************************************)
\* str(message.author.id) of the command issuers; "1" is a prefix of "12"
Ids == {"1", "12"}
\* message.author.name of a command issuer: display names are free text, and
\* the second issuer's reads like an id
AuthorName(id) == IF id = "1" THEN "al" ELSE "12"
\* values of datetime.now().strftime("%Y-%m-%d %H:%M:%S"): all of one width
Dates == {"T1"}
\* the dates of the records a reconciliation scans
ScanDates == {"T1", "T2"}
\* timestamp text a command may carry: a stored date or any other text
Timestamps == Dates \cup {"2T1"}
\* interval text a command may carry
IntervalTokens == {"60", "abc"}
\* len(message.mentions) of an add command
MentionCounts == {1, 2}

None == "none"

(***************************************************************************)
(* Attribute values.  DynamoDB attributes are typed: a number (t = "N")    *)
(* and a string (t = "S") are never equal.                                 *)
(***************************************************************************)
Num(n) == [t |-> "N", n |-> n, s |-> ""]
Str(s) == [t |-> "S", n |-> 0, s |-> s]

\* the strings int() accepts, among the texts of the model
IsIntLiteral(s) == s \in {"30", "60"}
IntLiteral(s) == CASE s = "30" -> 30 [] s = "60" -> 60 [] OTHER -> 0

\* int(str(v)) succeeds
CanParseInt(v) == v.t = "N" \/ IsIntLiteral(v.s)
\* int(str(v))
ParseInt(v) == IF v.t = "N" THEN v.n ELSE IntLiteral(v.s)

\* id = str(message.author.id) + date_created; item["user"] + item["date_created"]
JobId(user, date) == user \o date

(***************************************************************************)
(* State.                                                                  *)
(***************************************************************************)
VARIABLES
    \* the DynamoDB table: <<user, date_created>> -> item
    table,
    \* the AsyncIOScheduler's jobs, pending or stored: job id -> job
    jobs,
    \* the scheduler has been started (scheduler.start() returned)
    started,
    \* position of the process: "connected", "syncing", "running", "aborted"
    phase,
    \* the page load_all() fetched and the items __sync_scheduler has yet to
    \* take from it
    scan,
    \* the last step taken and what its issuer saw of it
    last,
    \* history: keys whose record and job the pause command paused, and that
    \* no later unpause or delete command addressed
    pausedByCmd,
    \* history: pausedByCmd as it was when the running process was constructed
    pausedAtBoot,
    \* history: the run of pause commands followed by unpause commands in
    \* progress on one key, the seconds of its job when the run began, and the
    \* commands of each kind in it
    chain,
    \* commands handled, restarts made
    ncmds,
    nrestarts,
    \* the DynamoDB endpoint answers the requests of the process
    storeUp

vars == <<table, jobs, started, phase, scan, last, pausedByCmd, pausedAtBoot, chain,
          ncmds, nrestarts, storeUp>>

Keys == Ids \X ScanDates

\* the items a table holds when the process starts
InitItems ==
    [message : {"hello"}, recipient_name : {"bob"}, recipient_id : {Num(7)},
     channel_id : {Num(9)}, interval : {Num(30)},
     status : {"Active", "Paused", "Deleted"}]

NoScan == [items |-> <<>>, left |-> {}, failed |-> {}]
NoChain ==
    [stage |-> None, key |-> <<"", "">>, seconds |-> 0, pauses |-> 0,
     unpauses |-> 0]
NoChannel == Str(None)
Event(op, user, ts, arg, mentions, exc, reply) ==
    [op |-> op, user |-> user, ts |-> ts, arg |-> arg, mentions |-> mentions,
     exc |-> exc, reply |-> reply]
Result(exc, reply, t, js) == [exc |-> exc, reply |-> reply, table |-> t, jobs |-> js]

(***************************************************************************)
(* MessageDB (src/aws_hook.py).                                            *)
(***************************************************************************)
\* put_item: writes the item under its key, whatever the table held there
DbAdd(t, date_created, user, message, recipient_name, recipient_id, channel_id, interval, status) ==
    LET item == [message |-> message, recipient_name |-> recipient_name,
                 recipient_id |-> recipient_id, channel_id |-> channel_id,
                 interval |-> interval, status |-> status]
        k == <<user, date_created>>
    IN  [x \in DOMAIN t \cup {k} |-> IF x = k THEN item ELSE t[x]]

\* the ConditionExpression of update_item without its clause #st <> :status_value
UpdateConditionKeyOnly(t, user, date, key, new) ==
    <<user, date>> \in DOMAIN t

\* the ConditionExpression of update_item:
\* #usr = :user_value and #dt = :date_value and #st <> :status_value
UpdateCondition(t, user, date, key, new) ==
    /\ <<user, date>> \in DOMAIN t
    /\ t[<<user, date>>][key] # new

\* update: SET #st = :status_value under the condition; True when it applied,
\* False on any exception, that of a failed condition and that of a request
\* the endpoint did not answer alike
DbUpdate(t, user, date, key, new) ==
    IF storeUp /\ UpdateCondition(t, user, date, key, new)
    THEN [ok |-> TRUE, exc |-> None,
          table |-> [t EXCEPT ![<<user, date>>] = [@ EXCEPT ![key] = new]]]
    ELSE [ok |-> FALSE, exc |-> None, table |-> t]

\* MessageDB defines no update_status
HasUpdateStatus == FALSE

\* delete: return self.update_status(user, date, "status", "Deleted")
DbDelete(t, user, date) ==
    IF HasUpdateStatus
    THEN DbUpdate(t, user, date, "status", "Deleted")
    ELSE [ok |-> FALSE, exc |-> "AttributeError", table |-> t]

\* lookup("user", inquiry): the non-deleted rows of the partition
Lookup(t, inquiry) ==
    {k \in DOMAIN t : k[1] = inquiry /\ t[k].status # "Deleted"}

\* load_all without its filter on the status
LoadAllUnfiltered(page) == DOMAIN page

\* load_all: the items of the scanned page whose status is not "Deleted"
LoadAll(page) == {k \in DOMAIN page : page[k].status # "Deleted"}

(***************************************************************************)
(* AsyncIOScheduler, as DiscordMessenger calls it.                         *)
(***************************************************************************)
Job(seconds, recipient, channel, message) ==
    [seconds |-> seconds, paused |-> FALSE, recipient |-> recipient,
     channel |-> channel, message |-> message]

Sched(exc, js) == [exc |-> exc, jobs |-> js]

\* add_job(..., trigger = "interval", seconds = n, id = id): a running
\* scheduler refuses an id it holds
AddJob(js, run, id, job) ==
    IF run /\ id \in DOMAIN js
    THEN Sched("ConflictingIdError", js)
    ELSE Sched(None, [x \in DOMAIN js \cup {id} |-> IF x = id THEN job ELSE js[x]])

\* pause_job(job_id)
PauseJob(js, id) ==
    IF id \in DOMAIN js
    THEN Sched(None, [js EXCEPT ![id].paused = TRUE])
    ELSE Sched("JobLookupError", js)

\* resume_job(job_id)
ResumeJob(js, id) ==
    IF id \in DOMAIN js
    THEN Sched(None, [js EXCEPT ![id].paused = FALSE])
    ELSE Sched("JobLookupError", js)

\* remove_job(job_id)
RemoveJob(js, id) ==
    IF id \in DOMAIN js
    THEN Sched(None, [x \in DOMAIN js \ {id} |-> js[x]])
    ELSE Sched("JobLookupError", js)

\* reschedule_job(job_id, trigger = "interval", seconds = v): the trigger is
\* built first, timedelta(seconds = v) rejects a str; the job then gets the
\* trigger and a next run time
RescheduleJob(js, id, v) ==
    IF v.t # "N" THEN Sched("TypeError", js)
    ELSE IF id \in DOMAIN js
    THEN Sched(None, [js EXCEPT ![id].seconds = v.n, ![id].paused = FALSE])
    ELSE Sched("JobLookupError", js)

(***************************************************************************)
(* DiscordMessenger (src/DiscordMessenger.py).                             *)
(***************************************************************************)
Constructed ==
    /\ jobs = <<>>
    /\ started = FALSE
    /\ phase = "connected"
    /\ scan = NoScan
    /\ last = Event(None, "", "", "", 0, None, None)
    /\ pausedByCmd = {}
    /\ pausedAtBoot = {}
    /\ chain = NoChain
    /\ ncmds = 0
    /\ nrestarts = 0
    /\ storeUp = TRUE

\* a process is constructed on a table that holds records of earlier runs
Init ==
    /\ \E D \in SUBSET (Ids \X Dates) : table \in [D -> InitItems]
    /\ Constructed

\* a process is constructed on a table of up to MaxScan records
InitReconcile ==
    /\ \E D \in SUBSET Keys :
          /\ Cardinality(D) <= MaxScan
          /\ table \in [D -> InitItems]
    /\ Constructed

\* the body of the loop of __sync_scheduler for one item: fetch_user,
\* get_channel, add_job, and pause_job when the item's status is "Paused"
SyncItem(js, run, user, date, item, resolved) ==
    IF ~resolved THEN Sched("NotFound", js)
    ELSE IF ~CanParseInt(item.interval) THEN Sched("ValueError", js)
    ELSE LET channel == IF item.recipient_id # item.channel_id
                        THEN item.channel_id ELSE NoChannel
             added == AddJob(js, run, JobId(user, date),
                             Job(ParseInt(item.interval), item.recipient_id,
                                 channel, item.message))
         IN  IF added.exc # None THEN added
             ELSE IF item.status = "Paused"
             THEN PauseJob(added.jobs, JobId(user, date))
             ELSE added

\* on_ready up to its first await: load_all() fetches the page; with no item
\* to register the scheduler starts at once; the exception of a scan the
\* endpoint does not answer leaves on_ready
OnReady ==
    /\ phase = "connected"
    /\ IF storeUp
       THEN LET left == LoadAll(table)
            IN  /\ scan' = [items |-> [k \in left |-> table[k]], left |-> left,
                            failed |-> {}]
                /\ IF left = {}
                   THEN started' = TRUE /\ phase' = "running"
                   ELSE started' = started /\ phase' = "syncing"
                /\ last' = Event("ready", "", "", "", 0, None, None)
       ELSE /\ scan' = NoScan
            /\ started' = started
            /\ phase' = "aborted"
            /\ last' = Event("ready", "", "", "", 0, "ConnectionError", None)
    /\ UNCHANGED <<table, jobs, pausedByCmd, pausedAtBoot, chain, ncmds, nrestarts,
                   storeUp>>

\* one turn of the loop of __sync_scheduler, from the answer of fetch_user
\* to the next await; an exception leaves on_ready, and scheduler.start() is
\* not reached; after the last item on_ready starts the scheduler
SyncStep(k, resolved) ==
    /\ phase = "syncing"
    /\ k \in scan.left
    /\ LET r == SyncItem(jobs, started, k[1], k[2], scan.items[k], resolved)
           left == scan.left \ {k}
       IN  IF r.exc # None
           THEN /\ phase' = "aborted"
                /\ scan' = [scan EXCEPT !.failed = {k}]
                /\ last' = Event("sync", k[1], k[2], "", 0, r.exc, None)
                /\ UNCHANGED <<jobs, started>>
           ELSE /\ jobs' = r.jobs
                /\ scan' = [items |-> [x \in left |-> scan.items[x]],
                            left |-> left, failed |-> {}]
                /\ last' = Event("sync", k[1], k[2], "", 0, None, None)
                /\ IF left = {}
                   THEN started' = TRUE /\ phase' = "running"
                   ELSE started' = started /\ phase' = phase
    /\ UNCHANGED <<table, pausedByCmd, pausedAtBoot, chain, ncmds, nrestarts, storeUp>>

\* the process ends and a new one is constructed: the scheduler of __init__
\* is empty and stopped, the table is as it was
Restart ==
    /\ nrestarts < MaxRestarts
    /\ nrestarts' = nrestarts + 1
    /\ jobs' = <<>>
    /\ started' = FALSE
    /\ phase' = "connected"
    /\ scan' = NoScan
    /\ chain' = NoChain
    /\ last' = Event("restart", "", "", "", 0, None, None)
    /\ pausedAtBoot' = pausedByCmd
    /\ UNCHANGED <<table, pausedByCmd, ncmds, storeUp>>

\* a started scheduler runs send_message for a job that is not paused
Fire(id) ==
    /\ started
    /\ id \in DOMAIN jobs
    /\ ~jobs[id].paused
    /\ last' = Event("fire", "", id, "", 0, None, jobs[id].message)
    /\ UNCHANGED <<table, jobs, started, phase, scan, pausedByCmd, pausedAtBoot, chain,
                   ncmds, nrestarts, storeUp>>

\* history of the pause and unpause commands
NextPaused(set, op, user, ts) ==
    IF op = "pause" /\ <<user, ts>> \in DOMAIN table
                    /\ table[<<user, ts>>].status # "Deleted"
                    /\ JobId(user, ts) \in DOMAIN jobs
    THEN set \cup {<<user, ts>>}
    ELSE IF op \in {"unpause", "delete"}
    THEN set \ {<<user, ts>>}
    ELSE set

NextChain(op, user, ts) ==
    IF op = "pause"
    THEN IF chain.stage = "pausing" /\ chain.key = <<user, ts>>
         THEN [chain EXCEPT !.pauses = @ + 1]
         ELSE IF /\ <<user, ts>> \in DOMAIN table
                 /\ table[<<user, ts>>].status # "Deleted"
                 /\ JobId(user, ts) \in DOMAIN jobs
         THEN [stage |-> "pausing", key |-> <<user, ts>>,
               seconds |-> jobs[JobId(user, ts)].seconds, pauses |-> 1,
               unpauses |-> 0]
         ELSE NoChain
    ELSE IF op = "unpause" /\ chain.stage # None /\ chain.key = <<user, ts>>
    THEN [chain EXCEPT !.stage = "unpausing", !.unpauses = @ + 1]
    ELSE NoChain

\* on_message has handled a command: what it left in the table and in the
\* scheduler, the exception its except clause printed, the text it sent
Handled(op, user, ts, arg, mentions, exc, reply, t2, j2) ==
    /\ phase # "connected"
    /\ ncmds < MaxCmds
    /\ ncmds' = ncmds + 1
    /\ table' = t2
    /\ jobs' = j2
    /\ last' = Event(op, user, ts, arg, mentions, exc, reply)
    /\ pausedByCmd' = NextPaused(pausedByCmd, op, user, ts)
    /\ pausedAtBoot' = IF op = "pause" THEN pausedAtBoot
                       ELSE NextPaused(pausedAtBoot, op, user, ts)
    /\ chain' = NextChain(op, user, ts)
    /\ UNCHANGED <<started, phase, scan, nrestarts, storeUp>>

\* nothing binds the name messsage that _execute_add reads first
MesssageBound == FALSE

\* _execute_add: the mentions check, int(time_interval), message_db.add with
\* its seven positional arguments (date_created, user, message,
\* recipient_name, recipient_id, then time_interval as channel_id and "Active"
\* as interval; status defaults to "Active"), scheduler.add_job; the try
\* block prints what add or add_job raise
ExecuteAdd(t, js, run, id, name, mentions, tok, now) ==
    IF ~MesssageBound THEN Result("NameError", None, t, js)
    ELSE IF mentions # 1 THEN Result(None, None, t, js)
    ELSE IF ~IsIntLiteral(tok) THEN Result("ValueError", None, t, js)
    ELSE IF ~storeUp THEN Result("ConnectionError", None, t, js)
    ELSE LET t2 == DbAdd(t, now, name, "hello", "bob", Num(7),
                         Num(IntLiteral(tok)), Str("Active"), "Active")
             added == AddJob(js, run, JobId(id, now),
                             Job(IntLiteral(tok), Num(7), Num(9), "hello"))
         IN  Result(added.exc, None, t2, added.jobs)

\* _execute_update: message_db.update(..., "interval", time_interval) with the
\* text of the command, then scheduler.reschedule_job(seconds = time_interval)
ExecuteUpdate(t, js, id, ts, tok) ==
    LET r == DbUpdate(t, id, ts, "interval", Str(tok))
        s == RescheduleJob(js, JobId(id, ts), Str(tok))
    IN  Result(s.exc, None, r.table, s.jobs)

\* _execute_delete: message_db.delete, the answer sent by its result, then
\* scheduler.remove_job
ExecuteDelete(t, js, id, ts) ==
    LET r == DbDelete(t, id, ts)
        s == RemoveJob(js, JobId(id, ts))
    IN  IF r.exc # None THEN Result(r.exc, None, t, js)
        ELSE Result(s.exc,
                    IF r.ok THEN "Message deleted" ELSE "Timestamp does not exist",
                    r.table, s.jobs)

\* _execute_deactivate: message_db.update(..., "status", "Pause"), then
\* scheduler.pause_job
ExecuteDeactivate(t, js, id, ts) ==
    LET r == DbUpdate(t, id, ts, "status", "Pause")
        s == PauseJob(js, JobId(id, ts))
    IN  Result(s.exc, None, r.table, s.jobs)

\* _execute_activate without its call of scheduler.resume_job
ExecuteActivateStoreOnly(t, js, id, ts) ==
    LET r == DbUpdate(t, id, ts, "status", "Active")
    IN  Result(None, None, r.table, js)

\* _execute_activate: message_db.update(..., "status", "Active"), then
\* scheduler.resume_job
ExecuteActivate(t, js, id, ts) ==
    LET r == DbUpdate(t, id, ts, "status", "Active")
        s == ResumeJob(js, JobId(id, ts))
    IN  Result(s.exc, None, r.table, s.jobs)

\* the owner _execute_add stores with the record: message.author.name
AddOwner(id) == AuthorName(id)
\* the id _execute_add gives the job: str(message.author.id) + date_created
AddIdentity(id, now) == JobId(id, now)
\* the id __sync_scheduler gives the job of an item:
\* item["user"] + item["date_created"]
SyncIdentity(k) == JobId(k[1], k[2])
\* the owner list, update, delete, pause and unpause address the store with:
\* str(message.author.id)
CommandOwner(id) == id
\* the id update, delete, pause and unpause address the scheduler with:
\* str(message.author.id) + timestamp
CommandIdentity(id, ts) == JobId(id, ts)

\* on_message, case ["add" | "send" | "spam", recipient, interval, *data]
Add(id, mentions, tok, now) ==
    LET r == ExecuteAdd(table, jobs, started, id, AuthorName(id), mentions, tok, now)
    IN  Handled("add", id, now, tok, mentions, r.exc, r.reply, r.table, r.jobs)

\* on_message, case ["update", timestamp, interval]
Update(id, ts, tok) ==
    LET r == ExecuteUpdate(table, jobs, id, ts, tok)
    IN  Handled("update", id, ts, tok, 0, r.exc, r.reply, r.table, r.jobs)

\* on_message, case ["delete" | "remove", *timestamp]
Delete(id, ts) ==
    LET r == ExecuteDelete(table, jobs, id, ts)
    IN  Handled("delete", id, ts, "", 0, r.exc, r.reply, r.table, r.jobs)

\* on_message, case ["pause" | "deactivate", *timestamp]
Pause(id, ts) ==
    LET r == ExecuteDeactivate(table, jobs, id, ts)
    IN  Handled("pause", id, ts, "", 0, r.exc, r.reply, r.table, r.jobs)

\* on_message, case ["unpause" | "activate", *timestamp]
Unpause(id, ts) ==
    LET r == ExecuteActivate(table, jobs, id, ts)
    IN  Handled("unpause", id, ts, "", 0, r.exc, r.reply, r.table, r.jobs)

\* on_message, case ["list"]: _execute_list sends the rows of lookup; the
\* exception of a query the endpoint does not answer is printed by on_message
List(id) ==
    IF storeUp
    THEN Handled("list", id, "", "", 0, None, "listing", table, jobs)
    ELSE Handled("list", id, "", "", 0, "ConnectionError", None, table, jobs)

\* on_message, case ["help"]: _execute_help sends the help text
Help(id) ==
    Handled("help", id, "", "", 0, None, "help text", table, jobs)

CmdAdd ==
    \E id \in Ids, m \in MentionCounts, tok \in IntervalTokens, now \in Dates :
       Add(id, m, tok, now)
CmdUpdate ==
    \E id \in Ids, ts \in Timestamps, tok \in IntervalTokens : Update(id, ts, tok)
CmdDelete == \E id \in Ids, ts \in Timestamps : Delete(id, ts)
CmdPause == \E id \in Ids, ts \in Timestamps : Pause(id, ts)
CmdUnpause == \E id \in Ids, ts \in Timestamps : Unpause(id, ts)
CmdList == \E id \in Ids : List(id)
CmdHelp == \E id \in Ids : Help(id)
Timer == \E id \in DOMAIN jobs : Fire(id)

Reconcile ==
    \/ OnReady
    \/ \E k \in Keys, resolved \in BOOLEAN : SyncStep(k, resolved)

Next ==
    \/ Reconcile
    \/ CmdAdd
    \/ CmdUpdate
    \/ CmdDelete
    \/ CmdPause
    \/ CmdUnpause
    \/ CmdList
    \/ CmdHelp
    \/ Restart
    \/ Timer

Spec == Init /\ [][Next]_vars

\* the reconciliation routine alone, on every table of the bounds
SpecReconcile == InitReconcile /\ [][Reconcile]_vars

\* processes that handle pause, unpause and update commands only
NextPause ==
    \/ Reconcile
    \/ CmdUpdate
    \/ CmdPause
    \/ CmdUnpause
    \/ Restart
    \/ Timer

SpecPause == Init /\ [][NextPause]_vars

\* the values a caller hands to update as new: a status, an interval text, or
\* the number a record holds as its interval
UpdateValues(key) ==
    IF key = "status" THEN {"Active", "Pause", "Deleted"}
    ELSE {Str(tok) : tok \in IntervalTokens} \cup {Num(30)}

\* what a caller of update sees: the arguments it gave and the Boolean returned
StoreEvent(op, user, date, key, new, ok) ==
    [op |-> op, user |-> user, ts |-> date, key |-> key, new |-> new, ok |-> ok]

\* a call of MessageDB.update(user, date, key, new)
UpdateCall(user, date, key, new) ==
    /\ ncmds < MaxCmds
    /\ ncmds' = ncmds + 1
    /\ LET r == DbUpdate(table, user, date, key, new)
       IN  /\ table' = r.table
           /\ last' = StoreEvent("db.update", user, date, key, new, r.ok)
    /\ UNCHANGED <<jobs, started, phase, scan, pausedByCmd, pausedAtBoot, chain,
                   nrestarts, storeUp>>

NextStore ==
    \E user \in Ids, date \in Timestamps, key \in {"status", "interval"} :
       \E new \in UpdateValues(key) : UpdateCall(user, date, key, new)

\* the DynamoDB endpoint stops or resumes answering
Outage ==
    /\ storeUp' = ~storeUp
    /\ UNCHANGED <<table, jobs, started, phase, scan, last, pausedByCmd, pausedAtBoot,
                   chain, ncmds, nrestarts>>

NextOutage ==
    \/ Reconcile
    \/ CmdUpdate
    \/ CmdPause
    \/ CmdUnpause
    \/ CmdList
    \/ Restart
    \/ Outage

\* the process with a store that may be unreachable for a time, handling the
\* commands that reach the store
SpecOutage == Init /\ [][NextOutage]_vars

\* MessageDB alone: any sequence of calls of update on a table of the bounds
SpecStore == Init /\ [][NextStore]_vars

(***************************************************************************)
(* Properties.                                                             *)
(***************************************************************************)
Registered(js, k) == JobId(k[1], k[2]) \in DOMAIN js
Entry(js, k) == js[JobId(k[1], k[2])]
Live(t) == {k \in DOMAIN t : t[k].status # "Deleted"}

\* the scheduler holds exactly the entries of the non-deleted records, each
\* paused exactly when its record is "Paused", with the record's interval
Consistent(t, js) ==
    /\ DOMAIN js = {JobId(k[1], k[2]) : k \in Live(t)}
    /\ \A k \in Live(t) :
          /\ Entry(js, k).paused <=> (t[k].status = "Paused")
          /\ CanParseInt(t[k].interval)
          /\ Entry(js, k).seconds = ParseInt(t[k].interval)

CommandStep(op) == ncmds' = ncmds + 1 /\ last'.op = op
AnyCommandStep == ncmds' = ncmds + 1

\* C1: store and scheduler stay consistent: a command handled by a process
\* whose reconciliation is over, in a state where scheduler and table agree,
\* leaves them agreeing (same entries as non-deleted records, paused exactly
\* when the record is "Paused", period equal to the record's interval).
C1_CommandsKeepConsistency ==
    [][(phase = "running" /\ Consistent(table, jobs) /\ AnyCommandStep)
         => Consistent(table', jobs')]_vars

ValidAdd(e) ==
    /\ e.op = "add"
    /\ e.mentions = 1
    /\ IsIntLiteral(e.arg)
    /\ IntLiteral(e.arg) >= 1

\* C2: after a valid add command (one mention, positive integer interval)
\* the issuer's lookup holds exactly one more non-deleted record, "Active",
\* with the given interval, and the scheduler holds an armed job at
\* owner || createdAt of that record.
C2_ValidAddCreatesRecordAndJob ==
    [][(AnyCommandStep /\ ValidAdd(last'))
         => LET k == <<last'.user, last'.ts>>
            IN  /\ Cardinality(Lookup(table', last'.user))
                     = Cardinality(Lookup(table, last'.user)) + 1
                /\ k \in Lookup(table', last'.user) \ Lookup(table, last'.user)
                /\ table'[k].status = "Active"
                /\ table'[k].interval = Num(IntLiteral(last'.arg))
                /\ Registered(jobs', k)
                /\ ~Entry(jobs', k).paused
                /\ Entry(jobs', k).seconds = IntLiteral(last'.arg)]_vars

WithStatus(t, st) == {k \in DOMAIN t : t[k].status = st}

C4_PausedSurvivesRestart ==
    (nrestarts > 0 /\ phase = "running") =>
        \A k \in pausedAtBoot : Registered(jobs, k) /\ Entry(jobs, k).paused

\* C5: a run of one or more pause commands followed by one or more unpause
\* commands on the timestamp of a non-deleted record that has a scheduler
\* entry ends with the record "Active" and the entry armed, with the interval
\* the entry had before the run.
C5_PauseThenUnpauseRestores ==
    chain.stage = "unpausing" =>
        /\ chain.key \in DOMAIN table
        /\ table[chain.key].status = "Active"
        /\ Registered(jobs, chain.key)
        /\ ~Entry(jobs, chain.key).paused
        /\ Entry(jobs, chain.key).seconds = chain.seconds

\* two pause commands and then an unpause command have been handled on one
\* record
C5_Witness ==
    /\ chain.stage = "unpausing"
    /\ chain.pauses = 2
    /\ chain.unpauses = 1
    /\ last.op = "unpause"

\* C6: a delete command attempts the soft delete, then removes the job of
\* that identity whether the soft delete applied or not, and answers
\* "Message deleted" or "Timestamp does not exist" by the store result alone.
C6_DeleteRemovesJobAndAnswersByStore ==
    [][CommandStep("delete")
         => LET applies == UpdateCondition(table, last'.user, last'.ts,
                                           "status", "Deleted")
            IN  /\ ~Registered(jobs', <<last'.user, last'.ts>>)
                /\ last'.reply = IF applies THEN "Message deleted"
                                 ELSE "Timestamp does not exist"
                /\ applies => table'[<<last'.user, last'.ts>>].status = "Deleted"]_vars

\* C7: a delete command on a record that is already "Deleted" answers
\* "Timestamp does not exist", raises nothing, and leaves table and scheduler
\* as they were.
C7_DeleteIsIdempotent ==
    [][(/\ CommandStep("delete")
        /\ <<last'.user, last'.ts>> \in WithStatus(table, "Deleted"))
         => /\ last'.reply = "Timestamp does not exist"
            /\ last'.exc = None
            /\ table' = table
            /\ jobs' = jobs]_vars

\* C8: "Deleted" is terminal: no step changes the status or any other field
\* of a record whose status is "Deleted".
C8_DeletedIsTerminal ==
    [][\A k \in WithStatus(table, "Deleted") :
          k \in DOMAIN table' /\ table'[k] = table[k]]_vars

\* C9: an add command whose key (owner, createdAt) is already in the table
\* fails with DuplicateKey, leaves the record as it was and leaves the
\* scheduler as it was.
C9_AddOnExistingKeyFails ==
    [][(/\ CommandStep("add")
        /\ <<AuthorName(last'.user), last'.ts>> \in DOMAIN table)
         => /\ last'.exc = "DuplicateKey"
            /\ table' = table
            /\ jobs' = jobs]_vars

\* C10: when the reconciliation is over, the scheduler is started and every
\* item of the scan other than one whose recipient or channel could not be
\* resolved is registered.
C10_FailedItemBlocksOnlyItself ==
    phase \in {"running", "aborted"} =>
        /\ started
        /\ \A k \in scan.left \ scan.failed : Registered(jobs, k)

\* C11: no command is handled before the reconciliation of the process has
\* completed: every command step is taken by a process whose on_ready has
\* registered every item and started the scheduler.
C11_NoCommandBeforeReconciled ==
    [][AnyCommandStep => phase = "running"]_vars

\* C12: a call of update whose new value equals the value the record holds
\* returns False and leaves the whole table, the record's key included, as it
\* was; a call of update on a key with no record returns False, raises nothing
\* and creates no record.
C12_UpdateWithoutChangeOrRecord ==
    [][ncmds' = ncmds + 1 =>
         LET k == <<last'.user, last'.ts>>
         IN  /\ (k \in DOMAIN table /\ table[k][last'.key] = last'.new)
                   => (~last'.ok /\ table' = table)
             /\ k \notin DOMAIN table
                   => (~last'.ok /\ table' = table /\ k \notin DOMAIN table')]_vars

\* update has been called on a record with the value an earlier call had
\* written to it, and has returned False
C12_Witness ==
    /\ last.op = "db.update"
    /\ ~last.ok
    /\ <<last.user, last.ts>> \in DOMAIN table
    /\ table[<<last.user, last.ts>>][last.key] = last.new
    /\ last.key = "interval"
    /\ last.new = Str("60")

\* C13: an update command that names a non-deleted record with a scheduler
\* entry and carries a positive integer interval sets the period of that
\* entry to the new interval and leaves the entry paused or armed as it was.
C13_UpdateChangesPeriodOnly ==
    [][(/\ CommandStep("update")
        /\ <<last'.user, last'.ts>> \in Live(table)
        /\ Registered(jobs, <<last'.user, last'.ts>>)
        /\ IsIntLiteral(last'.arg))
         => LET k == <<last'.user, last'.ts>>
            IN  /\ Registered(jobs', k)
                /\ Entry(jobs', k).seconds = IntLiteral(last'.arg)
                /\ Entry(jobs', k).paused = Entry(jobs, k).paused]_vars

\* C14: the interval of every non-deleted record of the table is a positive
\* integer.
C14_IntervalsArePositiveIntegers ==
    \A k \in Live(table) :
       /\ CanParseInt(table[k].interval)
       /\ ParseInt(table[k].interval) >= 1

\* the texts a command answers with when the store has served it
Answers == {"listing", "help text", "Message deleted", "Timestamp does not exist"}

\* C15: a command that reads or writes the store while the store is
\* unreachable sends its issuer a message of the failure, one that is none of
\* the answers of a served command.
C15_OutageIsReportedToIssuer ==
    [][(/\ AnyCommandStep
        /\ ~storeUp
        /\ last'.op \in {"update", "pause", "unpause", "list"})
         => (last'.reply # None /\ last'.reply \notin Answers)]_vars

\* C16: for the issuer and the creation date of an add command, the job id
\* the add command registers, the job id the reconciliation computes from
\* the record the add command stores, and the job id the other commands
\* address with that date are one string, and the owner the add command
\* stores is the owner the other commands use as the key of the store.
C16_OneIdentityEverywhere ==
    last.op = "add" =>
        /\ AddIdentity(last.user, last.ts)
             = SyncIdentity(<<AddOwner(last.user), last.ts>>)
        /\ AddIdentity(last.user, last.ts) = CommandIdentity(last.user, last.ts)
        /\ AddOwner(last.user) = CommandOwner(last.user)

\* table and scheduler agree on one key: the key has an entry exactly when
\* its record is not deleted, paused exactly when the record is "Paused",
\* with the record's interval as its period
AgreesOn(t, js, k) ==
    /\ Registered(js, k) <=> k \in Live(t)
    /\ k \in Live(t) =>
          /\ Entry(js, k).paused <=> (t[k].status = "Paused")
          /\ CanParseInt(t[k].interval)
          /\ Entry(js, k).seconds = ParseInt(t[k].interval)

Mutators == {"update", "delete", "pause", "unpause"}

\* C17: two commands handled one after the other on the job identity of a
\* non-deleted record, by a process whose reconciliation is over, leave table
\* and scheduler agreeing on that identity when they agreed on it between the
\* two: no step of one falls between the store mutation and the scheduler
\* mutation of the other.
C17_TwoCommandsOnOneIdentityAgree ==
    [][(/\ phase = "running"
        /\ last.op \in Mutators
        /\ AnyCommandStep
        /\ last'.op \in Mutators
        /\ <<last'.user, last'.ts>> = <<last.user, last.ts>>
        /\ <<last.user, last.ts>> \in Live(table)
        /\ AgreesOn(table, jobs, <<last.user, last.ts>>))
         => AgreesOn(table', jobs', <<last.user, last.ts>>)]_vars

\* C18: a pause, unpause or update command on a non-deleted record that has
\* a scheduler entry leaves the entry in the commanded state (paused, armed,
\* firing at the new interval), whether the store update applied or reported
\* no change.
C18_SchedulerEndsInCommandedState ==
    [][(/\ AnyCommandStep
        /\ last'.op \in {"pause", "unpause", "update"}
        /\ <<last'.user, last'.ts>> \in Live(table)
        /\ Registered(jobs, <<last'.user, last'.ts>>)
        /\ last'.op = "update" => IsIntLiteral(last'.arg))
         => LET k == <<last'.user, last'.ts>>
            IN  /\ Registered(jobs', k)
                /\ last'.op = "pause" => Entry(jobs', k).paused
                /\ last'.op = "unpause" => ~Entry(jobs', k).paused
                /\ last'.op = "update"
                      => Entry(jobs', k).seconds = IntLiteral(last'.arg)]_vars

\* C19: a command leaves the record of every other owner as it was, and
\* leaves the scheduler entry of every record of another owner as it was.
C19_OwnerIsolation ==
    [][AnyCommandStep =>
         \A k \in DOMAIN table :
            k[1] # last'.user =>
               /\ k \in DOMAIN table'
               /\ table'[k] = table[k]
               /\ Registered(jobs, k)
                     => (Registered(jobs', k) /\ Entry(jobs', k) = Entry(jobs, k))]_vars

====
